---- MODULE Spec2Model ----
(***************************************************************************)
(* Model of furnace's container init process, src/furnace/pid1.py.         *)
(*                                                                         *)
(* PID1.run is a strictly sequential script of OS calls.  Every OS call is *)
(* one action; it either succeeds (and changes the kernel state `os`) or   *)
(* raises, which nothing in pid1.py catches, so the exception leaves run   *)
(* and sys.exit is never reached: the interpreter ends with status 1.      *)
(* The controller at the other end of the two control pipes is the only    *)
(* other process; it may write a byte or close its end at any time.        *)
(***************************************************************************)
EXTENDS Integers, Sequences, FiniteSets, TLC

(***************************************************************************)
(* Bounds of the model.                                                    *)
(***************************************************************************)
\* bytes the controller may send down the control pipe
MaxCtlBytes == 1

(***************************************************************************)
(* Constants imported from bake.container.libc (Linux <sched.h>,           *)
(* <sys/mount.h>, <sys/stat.h>).                                           *)
(***************************************************************************)
CLONE_NEWNS == 131072
CLONE_NEWUTS == 67108864
CLONE_NEWIPC == 134217728
CLONE_NEWPID == 536870912
CLONE_NEWNET == 1073741824
MS_REC == 16384
MS_SLAVE == 524288
MNT_DETACH == 2
S_IFCHR == 8192
S_IFBLK == 24576

\* number of bits of a flag word
FlagBits == 31

RECURSIVE BitOrN(_, _, _)
BitOrN(a, b, n) ==
    IF n = 0 THEN 0
    ELSE (IF a % 2 = 1 \/ b % 2 = 1 THEN 1 ELSE 0)
         + 2 * BitOrN(a \div 2, b \div 2, n - 1)

RECURSIVE BitAndN(_, _, _)
BitAndN(a, b, n) ==
    IF n = 0 THEN 0
    ELSE (IF a % 2 = 1 /\ b % 2 = 1 THEN 1 ELSE 0)
         + 2 * BitAndN(a \div 2, b \div 2, n - 1)

\* Python's a | b and a & b on non-negative flag words
BitOr(a, b) == BitOrN(a, b, FlagBits)
BitAnd(a, b) == BitAndN(a, b, FlagBits)

\* flags & flag == flag, for a non-zero flag
HasFlag(flags, flag) == flag # 0 /\ BitAnd(flags, flag) = flag

(***************************************************************************)
(* The tables of bake.container.config.                                    *)
(***************************************************************************)
ConfigNamespaces ==
    << [name |-> "ipc", flag |-> CLONE_NEWIPC],
       [name |-> "uts", flag |-> CLONE_NEWUTS],
       [name |-> "pid", flag |-> CLONE_NEWPID],
       [name |-> "mnt", flag |-> CLONE_NEWNS],
       [name |-> "net", flag |-> CLONE_NEWNET] >>

CONTAINER_MOUNTS ==
    << [destination |-> <<"proc">>,       type |-> "proc",   source |-> "proc"],
       [destination |-> <<"sys">>,        type |-> "sysfs",  source |-> "sysfs"],
       [destination |-> <<"dev">>,        type |-> "tmpfs",  source |-> "tmpfs"],
       [destination |-> <<"dev", "pts">>, type |-> "devpts", source |-> "devpts"],
       [destination |-> <<"tmp">>,        type |-> "tmpfs",  source |-> "tmpfs"],
       [destination |-> <<"run">>,        type |-> "tmpfs",  source |-> "tmpfs"] >>

CONTAINER_DEVICE_NODES ==
    << [name |-> "null",    major |-> 1, minor |-> 3],
       [name |-> "zero",    major |-> 1, minor |-> 5],
       [name |-> "random",  major |-> 1, minor |-> 8],
       [name |-> "urandom", major |-> 1, minor |-> 9],
       [name |-> "tty",     major |-> 5, minor |-> 0],
       [name |-> "console", major |-> 5, minor |-> 1] >>

HOSTNAME == "localhost"

\* the ready marker, b"RDY"
READY == <<"R", "D", "Y">>

(***************************************************************************)
(* Inputs of a run.                                                        *)
(***************************************************************************)
\* what non_caching_getpid() may return
Pids == {1, 2}

\* file-creation masks the process may be started with: 0, 0o022, 0o077
Umasks == {0, 18, 63}

\* the names of a namespace table
NsNames(table) == {table[k].name : k \in 1..Len(table)}

\* the entries of ConfigNamespaces picked by the index set S, in table order
RECURSIVE SubTable(_, _)
SubTable(S, k) ==
    IF k = 0 THEN << >>
    ELSE IF k \in S THEN Append(SubTable(S, k - 1), ConfigNamespaces[k])
         ELSE SubTable(S, k - 1)

\* every table made of entries of ConfigNamespaces, and the table reversed
NsTables ==
    {SubTable(S, Len(ConfigNamespaces)) : S \in SUBSET (1..Len(ConfigNamespaces))}
    \cup {[k \in 1..Len(ConfigNamespaces) |->
              ConfigNamespaces[Len(ConfigNamespaces) + 1 - k]]}

VARIABLES
    pid,                 \* result of non_caching_getpid()
    isolate_networking,  \* PID1.isolate_networking
    NAMESPACES,          \* the namespace table of the run
    nsPaths,             \* names present under /proc/self/ns
    umask,               \* file-creation mask of the process
    pc,                  \* position of run
    i,                   \* index of the loop being executed
    unshare_flags,       \* local of create_namespaces
    warnings,            \* logger.warning calls, in order
    status,              \* exit status of the process, -1 while running
    failed,              \* the OS call that raised, "none" if none did
    trace,               \* OS calls made so far, in order
    os,                  \* kernel state of the process
    ctlOut,              \* bytes written to control_write
    ctlBytes,            \* unread bytes in the control_read pipe
    ctlSent,             \* bytes the controller has written so far
    ctlClosed,           \* controller closed its end of control_read
    readResult           \* what os.read returned: "none", "eof" or "byte"

input == <<pid, isolate_networking, NAMESPACES, nsPaths, umask>>
ctlIn == <<ctlBytes, ctlSent, ctlClosed>>
vars == <<pid, isolate_networking, NAMESPACES, nsPaths, umask, pc, i,
          unshare_flags, warnings, status, failed, trace, os, ctlOut,
          ctlBytes, ctlSent, ctlClosed, readResult>>

\* the kernel state the process is started in
InitialOs ==
    [ sid         |-> FALSE,      \* setsid done
      sigchld     |-> "SIG_DFL",  \* disposition of SIGCHLD
      unshared    |-> << >>,      \* arguments of the unshare calls made
      propagation |-> "shared",   \* propagation of the mounts under /
      cwd         |-> "host",     \* working directory
      pivoted     |-> FALSE,      \* root_dir is the root mount
      chrooted    |-> FALSE,      \* chroot('.') done
      oldRootDir  |-> FALSE,      \* directory old_root exists
      oldRootMnt  |-> FALSE,      \* host root is mounted at /old_root
      dirs        |-> {},         \* directories ensured by mount_defaults
      mounts      |-> << >>,      \* CONTAINER_MOUNTS indices mounted, in order
      devnodes    |-> << >>,      \* device nodes under /dev, in creation order
      tmpfiles    |-> "unknown",  \* /bin/systemd-tmpfiles: "present"/"absent"
      tmpfilesRun |-> << >>,      \* prefixes systemd-tmpfiles was run with
      hostname    |-> "host" ]

InitCommon ==
    /\ pid \in Pids
    /\ isolate_networking \in BOOLEAN
    /\ umask \in Umasks
    /\ pc = "getpid"
    /\ i = 0
    /\ unshare_flags = 0
    /\ warnings = << >>
    /\ status = -1
    /\ failed = "none"
    /\ trace = << >>
    /\ os = InitialOs
    /\ ctlOut = << >>
    /\ ctlBytes = 0
    /\ ctlSent = 0
    /\ ctlClosed = FALSE
    /\ readResult = "none"

\* a run with the configured namespace table
Init ==
    /\ NAMESPACES = ConfigNamespaces
    /\ nsPaths \in SUBSET NsNames(ConfigNamespaces)
    /\ InitCommon

\* a run with any namespace table, under the usual mask 0o022
InitTables ==
    /\ NAMESPACES \in NsTables
    /\ nsPaths \in SUBSET NsNames(NAMESPACES)
    /\ InitCommon
    /\ umask = 18

(***************************************************************************)
(* Steps of run.                                                           *)
(***************************************************************************)
\* Raise, were the exception caught and the call made again
Raise_Retry(op) ==
    /\ pc' = pc
    /\ failed' = op
    /\ UNCHANGED <<input, ctlIn, i, status, trace, unshare_flags, warnings, os,
                   ctlOut, readResult>>

\* an OS call raised: the exception propagates out of run
Raise(op) ==
    /\ pc' = "Aborted"
    /\ status' = 1
    /\ failed' = op
    /\ trace' = Append(trace, op)
    /\ UNCHANGED <<input, ctlIn, i, unshare_flags, warnings, os, ctlOut, readResult>>

\* run goes on at `next`, with loop index `idx`
Goto(next, idx) ==
    /\ pc' = next
    /\ i' = idx
    /\ UNCHANGED <<input, ctlIn, status, failed>>

\* an OS call returned: go on at `next`, with loop index `idx`
Return(op, next, idx) ==
    /\ trace' = Append(trace, op)
    /\ Goto(next, idx)

\* VerifyIdentity without the comparison with 1
VerifyIdentity_NoCheck ==
    /\ pc = "getpid"
    /\ Return("getpid", "setsid", 0)
    /\ UNCHANGED <<unshare_flags, warnings, os, ctlOut, readResult>>

\* if non_caching_getpid() != 1: raise ValueError
VerifyIdentity ==
    /\ pc = "getpid"
    /\ IF pid # 1
       THEN Raise("getpid")
       ELSE /\ Return("getpid", "setsid", 0)
            /\ UNCHANGED <<unshare_flags, warnings, os, ctlOut, readResult>>

\* SessionStart, were run to leave out enable_zombie_reaping after it
SessionStart_SkipReaping ==
    /\ pc = "setsid"
    /\ \E ok \in BOOLEAN :
        IF ok
        THEN /\ Return("setsid", "ns_scan", 1)
             /\ os' = [os EXCEPT !.sid = TRUE]
             /\ UNCHANGED <<unshare_flags, warnings, ctlOut, readResult>>
        ELSE Raise("setsid")

\* os.setsid()
SessionStart ==
    /\ pc = "setsid"
    /\ \E ok \in BOOLEAN :
        IF ok
        THEN /\ Return("setsid", "signal", 0)
             /\ os' = [os EXCEPT !.sid = TRUE]
             /\ UNCHANGED <<unshare_flags, warnings, ctlOut, readResult>>
        ELSE Raise("setsid")

\* enable_zombie_reaping, were run to leave out create_namespaces after it
enable_zombie_reaping_SkipNamespaces ==
    /\ pc = "signal"
    /\ \E ok \in BOOLEAN :
        IF ok
        THEN /\ Return("signal", "root_slave", 0)
             /\ os' = [os EXCEPT !.sigchld = "SIG_IGN"]
             /\ UNCHANGED <<unshare_flags, warnings, ctlOut, readResult>>
        ELSE Raise("signal")

\* signal.signal(signal.SIGCHLD, signal.SIG_IGN)
enable_zombie_reaping ==
    /\ pc = "signal"
    /\ \E ok \in BOOLEAN :
        IF ok
        THEN /\ Return("signal", "ns_scan", 1)
             /\ os' = [os EXCEPT !.sigchld = "SIG_IGN"]
             /\ UNCHANGED <<unshare_flags, warnings, ctlOut, readResult>>
        ELSE Raise("signal")

(***************************************************************************)
(* create_namespaces                                                       *)
(***************************************************************************)
\* NsSkipped without the CLONE_NEWPID branch
NsSkipped_NoPid(entry) ==
    entry.flag = CLONE_NEWNET /\ ~isolate_networking

\* NsSkipped without the CLONE_NEWNET branch
NsSkipped_NoNet(entry) ==
    entry.flag = CLONE_NEWPID

\* the two `continue` branches of the scan
NsSkipped(entry) ==
    \/ entry.flag = CLONE_NEWPID
    \/ entry.flag = CLONE_NEWNET /\ ~isolate_networking

\* Path('/proc/self/ns', name).exists()
NsExists(entry) == entry.name \in nsPaths

\* ScanFlags without the test of the path under /proc/self/ns
ScanFlags_NoExistsCheck(flags, entry) ==
    IF NsSkipped(entry) THEN flags
    ELSE BitOr(flags, entry.flag)

\* ScanFlags, were the flag assigned instead of ORed in
ScanFlags_Assign(flags, entry) ==
    IF NsSkipped(entry) THEN flags
    ELSE IF NsExists(entry) THEN entry.flag
    ELSE flags

\* unshare_flags after the loop body has run for `entry`
ScanFlags(flags, entry) ==
    IF NsSkipped(entry) THEN flags
    ELSE IF NsExists(entry) THEN BitOr(flags, entry.flag)
    ELSE flags

\* the warnings logged after the loop body has run for `entry`
ScanWarnings(w, entry) ==
    IF NsSkipped(entry) \/ NsExists(entry) THEN w
    ELSE Append(w, entry.name)

\* one iteration of `for name, flag in NAMESPACES.items()`
NamespaceScan ==
    /\ pc = "ns_scan"
    /\ i <= Len(NAMESPACES)
    /\ unshare_flags' = ScanFlags(unshare_flags, NAMESPACES[i])
    /\ warnings' = ScanWarnings(warnings, NAMESPACES[i])
    /\ trace' = IF NsSkipped(NAMESPACES[i]) THEN trace ELSE Append(trace, "stat_ns")
    /\ Goto("ns_scan", i + 1)
    /\ UNCHANGED <<os, ctlOut, readResult>>

\* Unshare, were run to call mount_defaults before setup_root_mount
Unshare_MountFirst ==
    /\ pc = "ns_scan"
    /\ i > Len(NAMESPACES)
    /\ \E ok \in BOOLEAN :
        IF ok
        THEN /\ Return("unshare", "mnt_mkdir", 1)
             /\ os' = [os EXCEPT !.unshared = Append(@, unshare_flags)]
             /\ UNCHANGED <<unshare_flags, warnings, ctlOut, readResult>>
        ELSE Raise("unshare")

\* unshare(unshare_flags), after the loop
Unshare ==
    /\ pc = "ns_scan"
    /\ i > Len(NAMESPACES)
    /\ \E ok \in BOOLEAN :
        IF ok
        THEN /\ Return("unshare", "root_slave", 0)
             /\ os' = [os EXCEPT !.unshared = Append(@, unshare_flags)]
             /\ UNCHANGED <<unshare_flags, warnings, ctlOut, readResult>>
        ELSE Raise("unshare")

(***************************************************************************)
(* setup_root_mount                                                        *)
(***************************************************************************)
\* mount(Path("none"), Path("/"), None, MS_REC | MS_SLAVE, None)
RootMakeSlave ==
    /\ pc = "root_slave"
    /\ \E ok \in BOOLEAN :
        IF ok
        THEN /\ Return("mount_root", "root_mkdir", 0)
             /\ os' = [os EXCEPT !.propagation =
                          IF HasFlag(BitOr(MS_REC, MS_SLAVE), MS_SLAVE)
                             /\ HasFlag(BitOr(MS_REC, MS_SLAVE), MS_REC)
                          THEN "rslave" ELSE @]
             /\ UNCHANGED <<unshare_flags, warnings, ctlOut, readResult>>
        ELSE Raise("mount_root")

\* RootMkdir, were setup_root_mount to pivot without the chdir
RootMkdir_SkipChdir ==
    /\ pc = "root_mkdir"
    /\ \E ok \in BOOLEAN :
        IF ok
        THEN /\ Return("mkdir_old_root", "pivot_root", 0)
             /\ os' = [os EXCEPT !.oldRootDir = TRUE]
             /\ UNCHANGED <<unshare_flags, warnings, ctlOut, readResult>>
        ELSE Raise("mkdir_old_root")

\* old_root_dir.mkdir(parents=True, exist_ok=True)
RootMkdir ==
    /\ pc = "root_mkdir"
    /\ \E ok \in BOOLEAN :
        IF ok
        THEN /\ Return("mkdir_old_root", "root_chdir", 0)
             /\ os' = [os EXCEPT !.oldRootDir = TRUE]
             /\ UNCHANGED <<unshare_flags, warnings, ctlOut, readResult>>
        ELSE Raise("mkdir_old_root")

\* os.chdir(str(self.root_dir))
RootChdir ==
    /\ pc = "root_chdir"
    /\ \E ok \in BOOLEAN :
        IF ok
        THEN /\ Return("chdir", "pivot_root", 0)
             /\ os' = [os EXCEPT !.cwd = "root_dir"]
             /\ UNCHANGED <<unshare_flags, warnings, ctlOut, readResult>>
        ELSE Raise("chdir")

\* pivot_root(Path('.'), Path('old_root'))
PivotRoot ==
    /\ pc = "pivot_root"
    /\ \E ok \in BOOLEAN :
        IF ok
        THEN /\ Return("pivot_root", "chroot", 0)
             /\ os' = [os EXCEPT !.pivoted = TRUE, !.oldRootMnt = TRUE]
             /\ UNCHANGED <<unshare_flags, warnings, ctlOut, readResult>>
        ELSE Raise("pivot_root")

\* os.chroot('.')
Chroot ==
    /\ pc = "chroot"
    /\ \E ok \in BOOLEAN :
        IF ok
        THEN /\ Return("chroot", "mnt_mkdir", 1)
             /\ os' = [os EXCEPT !.chrooted = TRUE]
             /\ UNCHANGED <<unshare_flags, warnings, ctlOut, readResult>>
        ELSE Raise("chroot")

(***************************************************************************)
(* mount_defaults                                                          *)
(***************************************************************************)
\* a path and its ancestors, as mkdir(parents=True) creates them
WithParents(path) == {SubSeq(path, 1, k) : k \in 1..Len(path)}

\* m["destination"].mkdir(parents=True, exist_ok=True)
MountMkdir ==
    /\ pc = "mnt_mkdir"
    /\ \E ok \in BOOLEAN :
        IF ok
        THEN /\ Return("mkdir", "mnt_mount", i)
             /\ os' = [os EXCEPT !.dirs =
                          @ \cup WithParents(CONTAINER_MOUNTS[i].destination)]
             /\ UNCHANGED <<unshare_flags, warnings, ctlOut, readResult>>
        ELSE Raise("mkdir")

\* MountEntry, were a failed mount skipped and the loop continued
MountEntry_SkipFailed ==
    /\ pc = "mnt_mount"
    /\ \E ok \in BOOLEAN :
        /\ IF i < Len(CONTAINER_MOUNTS)
           THEN Return("mount", "mnt_mkdir", i + 1)
           ELSE Return("mount", "dev_mknod", 1)
        /\ os' = IF ok THEN [os EXCEPT !.mounts = Append(@, i)] ELSE os
        /\ UNCHANGED <<unshare_flags, warnings, ctlOut, readResult>>

\* mount(m["source"], m["destination"], m["type"], m.get("flags", 0), options)
MountEntry ==
    /\ pc = "mnt_mount"
    /\ \E ok \in BOOLEAN :
        IF ok
        THEN /\ IF i < Len(CONTAINER_MOUNTS)
                THEN Return("mount", "mnt_mkdir", i + 1)
                ELSE Return("mount", "dev_mknod", 1)
             /\ os' = [os EXCEPT !.mounts = Append(@, i)]
             /\ UNCHANGED <<unshare_flags, warnings, ctlOut, readResult>>
        ELSE Raise("mount")

(***************************************************************************)
(* create_device_node and its callers                                      *)
(***************************************************************************)
\* range(8) of create_loop_devices
NumLoopDevices == 8

\* number of permission bits of a mode
PermBits == 9

\* os.makedev(major, minor), for major < 4096 and minor < 256
makedev(major, minor) == major * 256 + minor

\* the permission bits a new node gets from mode under the mask um
MaskedPerm(mode, um) ==
    BitAnd(mode % (2 ^ PermBits), (2 ^ PermBits) - 1 - um)

DevNames(nodes) == {nodes[k].name : k \in 1..Len(nodes)}

\* os.mknod(str(nodepath), mode=device_type, device=os.makedev(major, minor))
Mknod(nodes, name, major, minor, is_block_device) ==
    Append(nodes,
           [name |-> name,
            type |-> IF is_block_device THEN S_IFBLK ELSE S_IFCHR,
            dev  |-> makedev(major, minor),
            perm |-> MaskedPerm(IF is_block_device THEN S_IFBLK ELSE S_IFCHR,
                                umask)])

\* Chmod, were the mode filtered through the mask as that of mknod is
Chmod_Masked(nodes, name, mode) ==
    [k \in 1..Len(nodes) |->
        IF nodes[k].name = name
        THEN [nodes[k] EXCEPT !.perm = MaskedPerm(mode, umask)]
        ELSE nodes[k]]

\* nodepath.chmod(mode=mode)
Chmod(nodes, name, mode) ==
    [k \in 1..Len(nodes) |->
        IF nodes[k].name = name THEN [nodes[k] EXCEPT !.perm = mode]
        ELSE nodes[k]]

\* first call of create_device_node; mknod fails on an existing name
DeviceMknod(at, then, name, major, minor, is_block_device) ==
    /\ pc = at
    /\ \E ok \in BOOLEAN :
        IF ok /\ name \notin DevNames(os.devnodes)
        THEN /\ Return("mknod", then, i)
             /\ os' = [os EXCEPT !.devnodes =
                          Mknod(@, name, major, minor, is_block_device)]
             /\ UNCHANGED <<unshare_flags, warnings, ctlOut, readResult>>
        ELSE Raise("mknod")

\* second call of create_device_node
DeviceChmod(at, then, idx, name, mode) ==
    /\ pc = at
    /\ \E ok \in BOOLEAN :
        IF ok
        THEN /\ Return("chmod", then, idx)
             /\ os' = [os EXCEPT !.devnodes = Chmod(@, name, mode)]
             /\ UNCHANGED <<unshare_flags, warnings, ctlOut, readResult>>
        ELSE Raise("chmod")

\* create_default_dev_nodes: create_device_node(name, major, minor, 0o666)
DefaultDevMknod ==
    /\ pc = "dev_mknod"
    /\ DeviceMknod("dev_mknod", "dev_chmod", CONTAINER_DEVICE_NODES[i].name,
                   CONTAINER_DEVICE_NODES[i].major,
                   CONTAINER_DEVICE_NODES[i].minor, FALSE)

DefaultDevChmod ==
    /\ pc = "dev_chmod"
    /\ IF i < Len(CONTAINER_DEVICE_NODES)
       THEN DeviceChmod("dev_chmod", "dev_mknod", i + 1,
                        CONTAINER_DEVICE_NODES[i].name, 438)
       ELSE DeviceChmod("dev_chmod", "loopctl_mknod", 0,
                        CONTAINER_DEVICE_NODES[i].name, 438)

\* create_loop_devices: create_device_node('loop-control', 10, 237, 0o660)
LoopControlMknod ==
    DeviceMknod("loopctl_mknod", "loopctl_chmod", "loop-control", 10, 237, FALSE)

LoopControlChmod ==
    DeviceChmod("loopctl_chmod", "loop_mknod", 0, "loop-control", 432)

\* 'loop{}'.format(i)
LoopName(k) == "loop" \o ToString(k)

\* create_device_node('loop{}'.format(i), 7, i, 0o660, is_block_device=True)
LoopMknod ==
    /\ pc = "loop_mknod"
    /\ DeviceMknod("loop_mknod", "loop_chmod", LoopName(i), 7, i, TRUE)

\* LoopChmod, were the loop to run over range(9)
LoopChmod_OneMore ==
    /\ pc = "loop_chmod"
    /\ IF i < NumLoopDevices
       THEN DeviceChmod("loop_chmod", "loop_mknod", i + 1, LoopName(i), 432)
       ELSE DeviceChmod("loop_chmod", "tmpfs_exists", 0, LoopName(i), 432)

LoopChmod ==
    /\ pc = "loop_chmod"
    /\ IF i + 1 < NumLoopDevices
       THEN DeviceChmod("loop_chmod", "loop_mknod", i + 1, LoopName(i), 432)
       ELSE DeviceChmod("loop_chmod", "tmpfs_exists", 0, LoopName(i), 432)

(***************************************************************************)
(* create_tmpfs_dirs                                                       *)
(***************************************************************************)
\* if Path('/bin/systemd-tmpfiles').exists(): ... else: logger.warning(...)
TmpfilesExists ==
    /\ pc = "tmpfs_exists"
    /\ \E present \in BOOLEAN :
        IF present
        THEN /\ Return("stat_tmpfiles", "tmpfs_run", 1)
             /\ os' = [os EXCEPT !.tmpfiles = "present"]
             /\ UNCHANGED <<unshare_flags, warnings, ctlOut, readResult>>
        ELSE /\ Return("stat_tmpfiles", "umount2", 0)
             /\ os' = [os EXCEPT !.tmpfiles = "absent"]
             /\ warnings' = Append(warnings, "systemd-tmpfiles")
             /\ UNCHANGED <<unshare_flags, ctlOut, readResult>>

\* TmpfilesRun without the test of the entry's type
TmpfilesRun_AllMounts ==
    /\ pc = "tmpfs_run"
    /\ \E ok \in BOOLEAN :
        IF ok
        THEN /\ IF i < Len(CONTAINER_MOUNTS)
                THEN Return("systemd-tmpfiles", "tmpfs_run", i + 1)
                ELSE Return("systemd-tmpfiles", "umount2", 0)
             /\ os' = [os EXCEPT !.tmpfilesRun =
                          Append(@, CONTAINER_MOUNTS[i].destination)]
             /\ UNCHANGED <<unshare_flags, warnings, ctlOut, readResult>>
        ELSE Raise("systemd-tmpfiles")

\* one iteration of `for m in CONTAINER_MOUNTS` with its check_output call;
\* check_output raises OSError when the tool cannot be started and
\* CalledProcessError when it is seen to exit with a non-zero status
TmpfilesRun ==
    /\ pc = "tmpfs_run"
    /\ IF CONTAINER_MOUNTS[i].type = "tmpfs"
       THEN \E ok \in BOOLEAN :
                IF ok
                THEN /\ IF i < Len(CONTAINER_MOUNTS)
                        THEN Return("systemd-tmpfiles", "tmpfs_run", i + 1)
                        ELSE Return("systemd-tmpfiles", "umount2", 0)
                     /\ os' = [os EXCEPT !.tmpfilesRun =
                                  Append(@, CONTAINER_MOUNTS[i].destination)]
                     /\ UNCHANGED <<unshare_flags, warnings, ctlOut, readResult>>
                ELSE Raise("systemd-tmpfiles")
       ELSE /\ IF i < Len(CONTAINER_MOUNTS)
               THEN Goto("tmpfs_run", i + 1)
               ELSE Goto("umount2", 0)
            /\ UNCHANGED <<trace, unshare_flags, warnings, os, ctlOut, readResult>>

(***************************************************************************)
(* umount_old_root, sethostname and the control channel                    *)
(***************************************************************************)
\* umount2 of the old root takes the mount away: the process still runs
\* from files of the old root, so only a lazy unmount does
Detaches(flags) == HasFlag(flags, MNT_DETACH)

\* UmountOldRoot, were a plain umount of the busy old root tried and its
\* error ignored
UmountOldRoot_NoDetach ==
    /\ pc = "umount2"
    /\ Return("umount2", "rmdir", 0)
    /\ os' = [os EXCEPT !.oldRootMnt = IF Detaches(0) THEN FALSE ELSE @]
    /\ UNCHANGED <<unshare_flags, warnings, ctlOut, readResult>>

\* umount2('/old_root', MNT_DETACH)
UmountOldRoot ==
    /\ pc = "umount2"
    /\ \E ok \in BOOLEAN :
        IF ok /\ Detaches(MNT_DETACH)
        THEN /\ Return("umount2", "rmdir", 0)
             /\ os' = [os EXCEPT !.oldRootMnt = FALSE]
             /\ UNCHANGED <<unshare_flags, warnings, ctlOut, readResult>>
        ELSE Raise("umount2")

\* os.rmdir('/old_root'); a directory something is mounted on is busy
RmdirOldRoot ==
    /\ pc = "rmdir"
    /\ \E ok \in BOOLEAN :
        IF ok /\ ~os.oldRootMnt
        THEN /\ Return("rmdir", "sethostname", 0)
             /\ os' = [os EXCEPT !.oldRootDir = FALSE]
             /\ UNCHANGED <<unshare_flags, warnings, ctlOut, readResult>>
        ELSE Raise("rmdir")

\* SetHostname, were its error caught and ignored
SetHostname_Swallow ==
    /\ pc = "sethostname"
    /\ \E ok \in BOOLEAN :
        /\ Return("sethostname", "write", 0)
        /\ os' = IF ok THEN [os EXCEPT !.hostname = HOSTNAME] ELSE os
        /\ UNCHANGED <<unshare_flags, warnings, ctlOut, readResult>>

\* sethostname(HOSTNAME)
SetHostname ==
    /\ pc = "sethostname"
    /\ \E ok \in BOOLEAN :
        IF ok
        THEN /\ Return("sethostname", "write", 0)
             /\ os' = [os EXCEPT !.hostname = HOSTNAME]
             /\ UNCHANGED <<unshare_flags, warnings, ctlOut, readResult>>
        ELSE Raise("sethostname")

\* os.write(self.control_write, b"RDY")
SignalReady ==
    /\ pc = "write"
    /\ \E ok \in BOOLEAN :
        IF ok
        THEN /\ Return("write", "read", 0)
             /\ ctlOut' = ctlOut \o READY
             /\ UNCHANGED <<unshare_flags, warnings, os, readResult>>
        ELSE Raise("write")

\* WaitForShutdown on a non-blocking descriptor: returns with nothing to read
WaitForShutdown_NoBlock ==
    /\ pc = "read"
    /\ pc' = "return"
    /\ trace' = Append(trace, "read")
    /\ readResult' = IF ctlBytes > 0 THEN "byte" ELSE "eof"
    /\ ctlBytes' = IF ctlBytes > 0 THEN ctlBytes - 1 ELSE ctlBytes
    /\ UNCHANGED <<input, ctlSent, ctlClosed, i, status, failed,
                   unshare_flags, warnings, os, ctlOut>>

\* WaitForShutdown, were end-of-stream read again instead of returned
WaitForShutdown_NoEof ==
    /\ pc = "read"
    /\ \E ok \in BOOLEAN :
        IF ok
        THEN /\ ctlBytes > 0
             /\ pc' = "return"
             /\ trace' = Append(trace, "read")
             /\ readResult' = "byte"
             /\ ctlBytes' = ctlBytes - 1
             /\ UNCHANGED <<input, ctlSent, ctlClosed, i, status, failed,
                            unshare_flags, warnings, os, ctlOut>>
        ELSE Raise("read")

\* os.read(self.control_read, 1): blocks until a byte or end-of-stream
WaitForShutdown ==
    /\ pc = "read"
    /\ \E ok \in BOOLEAN :
        IF ok
        THEN /\ ctlBytes > 0 \/ ctlClosed
             /\ pc' = "return"
             /\ trace' = Append(trace, "read")
             /\ readResult' = IF ctlBytes > 0 THEN "byte" ELSE "eof"
             /\ ctlBytes' = IF ctlBytes > 0 THEN ctlBytes - 1 ELSE ctlBytes
             /\ UNCHANGED <<input, ctlSent, ctlClosed, i, status, failed,
                            unshare_flags, warnings, os, ctlOut>>
        ELSE Raise("read")

\* return 0, then sys.exit(pid1.run())
Exit ==
    /\ pc = "return"
    /\ pc' = "Exited"
    /\ status' = 0
    /\ UNCHANGED <<input, ctlIn, i, failed, trace, unshare_flags, warnings,
                   os, ctlOut, readResult>>

(***************************************************************************)
(* The controller, at the other end of the control pipes.                  *)
(***************************************************************************)
proc == <<pc, i, unshare_flags, warnings, status, failed, trace, os, ctlOut,
          readResult>>

ControllerWrite ==
    /\ ~ctlClosed
    /\ ctlSent < MaxCtlBytes
    /\ ctlSent' = ctlSent + 1
    /\ ctlBytes' = ctlBytes + 1
    /\ UNCHANGED <<input, proc, ctlClosed>>

ControllerClose ==
    /\ ~ctlClosed
    /\ ctlClosed' = TRUE
    /\ UNCHANGED <<input, proc, ctlBytes, ctlSent>>

(***************************************************************************)
(* Specifications                                                          *)
(***************************************************************************)
Run ==
    \/ VerifyIdentity
    \/ SessionStart
    \/ enable_zombie_reaping
    \/ NamespaceScan
    \/ Unshare
    \/ RootMakeSlave
    \/ RootMkdir
    \/ RootChdir
    \/ PivotRoot
    \/ Chroot
    \/ MountMkdir
    \/ MountEntry
    \/ DefaultDevMknod
    \/ DefaultDevChmod
    \/ LoopControlMknod
    \/ LoopControlChmod
    \/ LoopMknod
    \/ LoopChmod
    \/ TmpfilesExists
    \/ TmpfilesRun
    \/ UmountOldRoot
    \/ RmdirOldRoot
    \/ SetHostname
    \/ SignalReady
    \/ WaitForShutdown
    \/ Exit

Next ==
    \/ VerifyIdentity
    \/ SessionStart
    \/ enable_zombie_reaping
    \/ NamespaceScan
    \/ Unshare
    \/ RootMakeSlave
    \/ RootMkdir
    \/ RootChdir
    \/ PivotRoot
    \/ Chroot
    \/ MountMkdir
    \/ MountEntry
    \/ DefaultDevMknod
    \/ DefaultDevChmod
    \/ LoopControlMknod
    \/ LoopControlChmod
    \/ LoopMknod
    \/ LoopChmod
    \/ TmpfilesExists
    \/ TmpfilesRun
    \/ UmountOldRoot
    \/ RmdirOldRoot
    \/ SetHostname
    \/ SignalReady
    \/ WaitForShutdown
    \/ Exit
    \/ ControllerWrite
    \/ ControllerClose

\* runs with the configured namespace table
Spec == Init /\ [][Next]_vars

\* runs with any namespace table
SpecTables == InitTables /\ [][Next]_vars

\* a step of run in which no OS call raises
RunOk == Run /\ pc' # "Aborted"

\* the process is scheduled: a call that can return does return
LiveSpec == Init /\ [][Next]_vars /\ WF_vars(RunOk)

(***************************************************************************)
(* Properties                                                              *)
(***************************************************************************)
\* number of times the call `op` occurs in the trace t
Count(t, op) == Cardinality({k \in 1..Len(t) : t[k] = op})

\* positions of the call `op` in the trace
Positions(op) == {k \in 1..Len(trace) : trace[k] = op}

IsPrefix(s, t) == Len(s) <= Len(t) /\ s = SubSeq(t, 1, Len(s))

\* the namespace table has an entry for the kind `name`
InTable(name) == name \in NsNames(NAMESPACES)

\* every step of setup has been carried out
SetupComplete ==
    /\ os.sid
    /\ os.sigchld = "SIG_IGN"
    /\ Len(os.unshared) = 1
    /\ os.propagation = "rslave"
    /\ os.pivoted /\ os.chrooted
    /\ os.mounts = [k \in 1..Len(CONTAINER_MOUNTS) |-> k]
    /\ Len(os.devnodes) = Len(CONTAINER_DEVICE_NODES) + 1 + NumLoopDevices
    /\ os.tmpfiles \in {"present", "absent"}
    /\ ~os.oldRootMnt /\ ~os.oldRootDir
    /\ os.hostname = HOSTNAME

\* C1: every pivot_root call comes after an unshare call that returned and
\* before any mount of a CONTAINER_MOUNTS entry; an entry is only ever
\* mounted on a pivoted root.
C1_PivotAfterUnshareBeforeMounts ==
    /\ \A k \in Positions("pivot_root") :
          /\ \E j \in 1..(k - 1) : trace[j] = "unshare"
          /\ \A j \in 1..(k - 1) : trace[j] # "mount"
          /\ Len(os.unshared) = 1
    /\ \A k \in Positions("mount") :
          /\ \E j \in 1..(k - 1) : trace[j] = "pivot_root"
          /\ os.pivoted
    /\ os.mounts # << >> => os.pivoted
    /\ os.pivoted => os.unshared # << >>

C1_Witness ==
    /\ os.pivoted
    /\ Len(os.mounts) = Len(CONTAINER_MOUNTS)
    /\ Positions("pivot_root") # {}

\* C2: the marker is written at most once; it is written in every run that
\* got past setup, only when every setup step has been completed, and never
\* in a run in which a setup step failed.
C2_ReadyOnceAfterSetup ==
    /\ ctlOut \in {<< >>, READY}
    /\ ctlOut = READY => SetupComplete /\ failed \in {"none", "read"}
    /\ failed \notin {"none", "read"} => ctlOut = << >>
    /\ pc \in {"read", "return", "Exited"} => ctlOut = READY
    /\ pc \notin {"read", "return", "Exited", "Aborted"} => ctlOut = << >>
    /\ Count(trace, "write") <= 1

C2_Witness ==
    /\ pc = "Exited"
    /\ ctlOut = READY
    /\ Count(trace, "write") = 1

\* C3: when getpid does not return 1, run raises at the identity check and
\* has made no other call: the kernel state and both pipes are untouched.
C3_NotPid1Aborts ==
    pid # 1 =>
        /\ pc \in {"getpid", "Aborted"}
        /\ trace \in {<< >>, <<"getpid">>}
        /\ os = InitialOs
        /\ ctlOut = << >>
        /\ readResult = "none"
        /\ status # 0
        /\ pc = "Aborted" => status = 1 /\ failed = "getpid"

C3_Witness ==
    /\ pid # 1
    /\ pc = "Aborted"
    /\ trace = <<"getpid">>

\* C4: run returns only after the read on control_read has returned, which
\* needs a byte from the controller or the controller's close; it then
\* exits with 0 whether the read gave a byte or end-of-stream.
C4_ReturnOnlyAfterRead ==
    /\ pc \in {"return", "Exited"} =>
          /\ readResult \in {"eof", "byte"}
          /\ ctlOut = READY
          /\ failed = "none"
          /\ Count(trace, "read") = 1
    /\ readResult # "none" => pc \in {"return", "Exited"}
    /\ (ctlSent = 0 /\ ~ctlClosed) => pc \notin {"return", "Exited"}
    /\ readResult = "eof" => ctlClosed
    /\ readResult = "byte" => ctlSent > 0
    /\ pc = "Exited" => status = 0
    /\ status = 0 => pc = "Exited"

C4_Witness ==
    /\ pc = "Exited"
    /\ status = 0
    /\ readResult = "byte"
    /\ ~ctlClosed

\* the scenario of C5: PID 1, networking isolated, every kind supported
C5_Scenario ==
    /\ pid = 1
    /\ isolate_networking
    /\ nsPaths = NsNames(NAMESPACES)

\* C5: in the scenario, a run in which no OS call ever raises writes the
\* marker and blocks in the read, and once the controller has closed its
\* end the run reaches Exited with status 0.
C5_HandshakeLiveness ==
    (C5_Scenario /\ [](failed = "none")) =>
        /\ <>(pc = "read" /\ ctlOut = READY /\ SetupComplete)
        /\ [](ctlClosed => <>(pc = "Exited" /\ status = 0))

C5_Witness ==
    /\ C5_Scenario
    /\ pc = "Exited"
    /\ status = 0
    /\ readResult = "eof"
    /\ ctlClosed

\* C6: whatever the table, isolate_networking and the supported kinds, no
\* flag word accumulated for or passed to unshare contains CLONE_NEWPID.
C6_NeverUnsharePid ==
    /\ ~HasFlag(unshare_flags, CLONE_NEWPID)
    /\ \A k \in 1..Len(os.unshared) : ~HasFlag(os.unshared[k], CLONE_NEWPID)

C6_Witness ==
    /\ Len(os.unshared) = 1
    /\ InTable("pid")
    /\ "pid" \in nsPaths
    /\ os.unshared[1] # 0

\* C7: without isolate_networking no flag word passed to unshare contains
\* CLONE_NEWNET, whatever the table and also when /proc/self/ns/net exists;
\* with it, every flag word passed to unshare contains CLONE_NEWNET when the
\* table has the net entry and /proc/self/ns/net exists.
C7_NetFlagFollowsOption ==
    \A k \in 1..Len(os.unshared) :
        /\ ~isolate_networking => ~HasFlag(os.unshared[k], CLONE_NEWNET)
        /\ (isolate_networking /\ InTable("net") /\ "net" \in nsPaths) =>
              HasFlag(os.unshared[k], CLONE_NEWNET)

C7_Witness ==
    /\ ~isolate_networking
    /\ InTable("net")
    /\ "net" \in nsPaths
    /\ Len(os.unshared) = 1

\* the entries of the table whose path under /proc/self/ns is absent
AbsentEntries ==
    {k \in 1..Len(NAMESPACES) : NAMESPACES[k].name \notin nsPaths}

\* the scan of the table is over
ScanDone == pc \notin {"getpid", "setsid", "signal"} /\ ~(pc = "ns_scan" /\ i <= Len(NAMESPACES))

\* C8 as claimed: for every entry but the PID one, with any value of
\* isolate_networking, an absent path leaves the flag out of the unshare
\* argument, logs a warning naming the kind and does not abort the scan.
C8_Original ==
    (pid = 1 /\ ScanDone /\ failed \notin {"getpid", "setsid", "signal"}) =>
        \A k \in AbsentEntries :
            NAMESPACES[k].flag # CLONE_NEWPID =>
                /\ ~HasFlag(unshare_flags, NAMESPACES[k].flag)
                /\ Count(warnings, NAMESPACES[k].name) = 1

\* C8, amended: the same for every entry but the PID one and, when
\* isolate_networking is false, the net one; that one is left out of the
\* argument without a warning.  No absent path aborts the run: the scan
\* itself never raises and unshare is called with the remaining flags.
C8_AbsentKindDegrades ==
    /\ failed # "stat_ns"
    /\ (pid = 1 /\ ScanDone /\ failed \notin {"getpid", "setsid", "signal"}) =>
          \A k \in AbsentEntries :
              /\ ~HasFlag(unshare_flags, NAMESPACES[k].flag)
              /\ (NAMESPACES[k].flag # CLONE_NEWPID
                    /\ ~(NAMESPACES[k].flag = CLONE_NEWNET /\ ~isolate_networking))
                 => Count(warnings, NAMESPACES[k].name) = 1
              /\ (NAMESPACES[k].flag = CLONE_NEWNET /\ ~isolate_networking)
                 => Count(warnings, NAMESPACES[k].name) = 0
    /\ \A k \in 1..Len(os.unshared) :
          /\ os.unshared[k] = unshare_flags
          /\ \A e \in 1..Len(NAMESPACES) :
                (NAMESPACES[e].flag # CLONE_NEWPID
                  /\ ~(NAMESPACES[e].flag = CLONE_NEWNET /\ ~isolate_networking))
                => (HasFlag(os.unshared[k], NAMESPACES[e].flag)
                      <=> NAMESPACES[e].name \in nsPaths)

C8_Witness ==
    /\ isolate_networking
    /\ InTable("net") /\ "net" \notin nsPaths
    /\ InTable("uts") /\ "uts" \in nsPaths
    /\ Count(warnings, "net") = 1
    /\ Len(os.unshared) = 1
    /\ HasFlag(os.unshared[1], CLONE_NEWUTS)
    /\ ctlOut = READY

\* the state of the orchestrator a call belongs to
Phase(op) ==
    CASE op = "getpid" -> "VerifyIdentity"
      [] op = "setsid" -> "SessionStart"
      [] op = "signal" -> "ReapingEnabled"
      [] op \in {"stat_ns", "unshare"} -> "NamespacesIsolated"
      [] op \in {"mount_root", "mkdir_old_root", "chdir", "pivot_root", "chroot"}
            -> "RootPivoted"
      [] op \in {"mkdir", "mount"} -> "MountsApplied"
      [] op \in {"mknod", "chmod"} -> "DevicesCreated"
      [] op \in {"stat_tmpfiles", "systemd-tmpfiles"} -> "TmpfsPopulated"
      [] op \in {"umount2", "rmdir"} -> "OldRootDetached"
      [] op = "sethostname" -> "HostnameSet"
      [] op = "write" -> "ReadySignaled"
      [] op = "read" -> "AwaitingShutdown"

PhaseOrder ==
    << "VerifyIdentity", "SessionStart", "ReapingEnabled", "NamespacesIsolated",
       "RootPivoted", "MountsApplied", "DevicesCreated", "TmpfsPopulated",
       "OldRootDetached", "HostnameSet", "ReadySignaled", "AwaitingShutdown" >>

\* the phases of the calls of t, runs of one phase collapsed
RECURSIVE Phases(_)
Phases(t) ==
    IF t = << >> THEN << >>
    ELSE IF Len(t) > 1 /\ Phase(t[Len(t)]) = Phase(t[Len(t) - 1])
         THEN Phases(SubSeq(t, 1, Len(t) - 1))
         ELSE Append(Phases(SubSeq(t, 1, Len(t) - 1)), Phase(t[Len(t)]))

\* the names of the device nodes in the order create_default_dev_nodes and
\* then create_loop_devices make them
ExpectedDevNames ==
    [k \in 1..(Len(CONTAINER_DEVICE_NODES) + 1 + NumLoopDevices) |->
        IF k <= Len(CONTAINER_DEVICE_NODES) THEN CONTAINER_DEVICE_NODES[k].name
        ELSE IF k = Len(CONTAINER_DEVICE_NODES) + 1 THEN "loop-control"
        ELSE LoopName(k - Len(CONTAINER_DEVICE_NODES) - 2)]

\* C9: the calls of a run go through the phases in their order, never back;
\* a run that exits has gone through all of them, with each single-call
\* step made exactly once, the fixed device nodes made before the loop
\* devices and every table entry handled once.
C9_StrictSequence ==
    /\ IsPrefix(Phases(trace), PhaseOrder)
    /\ pc = "Exited" =>
          /\ Phases(trace) = PhaseOrder
          /\ \A op \in {"getpid", "setsid", "signal", "unshare", "mount_root",
                         "mkdir_old_root", "chdir", "pivot_root", "chroot",
                         "stat_tmpfiles", "umount2", "rmdir", "sethostname",
                         "write", "read"} : Count(trace, op) = 1
          /\ Count(trace, "mount") = Len(CONTAINER_MOUNTS)
          /\ Count(trace, "mknod") = Len(ExpectedDevNames)
          /\ Count(trace, "chmod") = Len(ExpectedDevNames)
          /\ [k \in 1..Len(os.devnodes) |-> os.devnodes[k].name] = ExpectedDevNames
          /\ SetupComplete

C9_Witness ==
    /\ pc = "Exited"
    /\ Phases(trace) = PhaseOrder
    /\ os.tmpfiles = "present"

\* C10: a call that raises ends the run there: the run is aborted with
\* status 1, the failed call is the last call ever made, and the kernel
\* state and the pipes stay as they were when it raised.
C10_FailureAborts ==
    [][ /\ failed' # "none" =>
             /\ pc' = "Aborted"
             /\ status' = 1
             /\ trace' # << >> /\ trace'[Len(trace')] = failed'
        /\ (pc' = "Aborted" /\ pc # "Aborted") =>
             /\ failed' # "none"
             /\ os' = os
             /\ ctlOut' = ctlOut
             /\ trace' = Append(trace, failed')
        /\ pc = "Aborted" =>
             /\ pc' = "Aborted"
             /\ UNCHANGED <<status, failed, trace, os, ctlOut, readResult>>
      ]_vars

C10_Witness ==
    /\ pc = "Aborted"
    /\ failed = "mknod"
    /\ status = 1
    /\ os.pivoted
    /\ Len(os.mounts) = Len(CONTAINER_MOUNTS)
    /\ Count(trace, "mknod") = 3

\* create_loop_devices has returned
LoopDevicesDone == pc = "tmpfs_exists" \/ Count(trace, "stat_tmpfiles") > 0

\* the nodes made after those of CONTAINER_DEVICE_NODES
LoopNodes ==
    IF Len(os.devnodes) <= Len(CONTAINER_DEVICE_NODES) THEN << >>
    ELSE SubSeq(os.devnodes, Len(CONTAINER_DEVICE_NODES) + 1, Len(os.devnodes))

\* C11: once create_loop_devices has returned, the nodes it made are exactly
\* 9: loop-control (10, 237) and the block devices loop0..loop7 (7, i), all
\* with mode 0660; at no time is a name made twice or another node made.
C11_NineLoopNodes ==
    /\ Len(LoopNodes) <= 1 + NumLoopDevices
    /\ \A k \in 1..Len(os.devnodes) : \A j \in 1..Len(os.devnodes) :
          os.devnodes[k].name = os.devnodes[j].name => k = j
    /\ \A k \in 1..Len(LoopNodes) :
          IF k = 1
          THEN /\ LoopNodes[k].name = "loop-control"
               /\ LoopNodes[k].dev \div 256 = 10
               /\ LoopNodes[k].dev % 256 = 237
          ELSE /\ LoopNodes[k].name \in {"loop0", "loop1", "loop2", "loop3",
                                         "loop4", "loop5", "loop6", "loop7"}
               /\ LoopNodes[k].name = LoopName(k - 2)
               /\ LoopNodes[k].dev \div 256 = 7
               /\ LoopNodes[k].dev % 256 = k - 2
               /\ LoopNodes[k].type = S_IFBLK
    /\ LoopDevicesDone =>
          /\ Len(LoopNodes) = 9
          /\ \A k \in 1..Len(LoopNodes) : LoopNodes[k].perm = 432
          /\ Len(os.devnodes) = Len(CONTAINER_DEVICE_NODES) + 9

C11_Witness ==
    /\ LoopDevicesDone
    /\ Len(LoopNodes) = 9
    /\ LoopNodes[9].name = "loop7"

\* the last node made still waits for its chmod
ChmodPending ==
    \/ pc \in {"dev_chmod", "loopctl_chmod", "loop_chmod"}
    \/ pc = "Aborted" /\ failed = "chmod"

\* the mode create_device_node is called with for the k-th node
RequestedMode(k) == IF k <= Len(CONTAINER_DEVICE_NODES) THEN 438 ELSE 432

\* C12: whatever the file-creation mask, every node for which
\* create_device_node has returned has exactly the requested permission
\* bits, 0666 for the fixed nodes and 0660 for the loop nodes.
C12_ModeExact ==
    \A k \in 1..Len(os.devnodes) :
        (k < Len(os.devnodes) \/ ~ChmodPending) =>
            os.devnodes[k].perm = RequestedMode(k)

C12_Witness ==
    /\ umask = 63
    /\ Len(os.devnodes) = Len(CONTAINER_DEVICE_NODES) + 1 + NumLoopDevices
    /\ ~ChmodPending
    /\ os.devnodes[1].perm = 438
    /\ os.devnodes[Len(os.devnodes)].perm = 432

\* C13: nothing that happens in create_tmpfs_dirs, a failing invocation of
\* the tool included, ends the run: no run is aborted by that step.
C13_TmpfsBestEffort ==
    failed \notin {"stat_tmpfiles", "systemd-tmpfiles"}

\* the call a step makes, "none" if it makes none
CallMade == IF trace' # trace THEN trace'[Len(trace')] ELSE "none"

\* C14: SIGCHLD is already ignored when unshare is called and when
\* systemd-tmpfiles, the only child, is spawned, and once ignored it is
\* never set to anything else.
C14_ReapingBeforeChildren ==
    [][ /\ CallMade \in {"unshare", "systemd-tmpfiles"} => os.sigchld = "SIG_IGN"
        /\ os.sigchld = "SIG_IGN" => os'.sigchld = "SIG_IGN"
      ]_vars

C14_Witness ==
    /\ Count(trace, "unshare") = 1
    /\ Count(trace, "systemd-tmpfiles") > 0
    /\ os.sigchld = "SIG_IGN"

\* the entry is neither the PID entry nor an unrequested net entry, and its
\* path under /proc/self/ns exists
Qualifies(entry) ==
    /\ entry.flag # CLONE_NEWPID
    /\ ~(entry.flag = CLONE_NEWNET /\ ~isolate_networking)
    /\ entry.name \in nsPaths

\* the flags of the qualifying entries among the first k, added up; the
\* flags of a table are distinct single bits, so this is their bitwise OR
RECURSIVE FlagSum(_)
FlagSum(k) ==
    IF k = 0 THEN 0
    ELSE FlagSum(k - 1)
         + (IF Qualifies(NAMESPACES[k]) THEN NAMESPACES[k].flag ELSE 0)

\* the entries whose path the scan looks at
Looked == {k \in 1..Len(NAMESPACES) : ~NsSkipped(NAMESPACES[k])}

\* create_namespaces has returned
NamespacesDone == pc = "root_slave" \/ Count(trace, "mount_root") > 0

\* what C15 says of a state
C15_State ==
    /\ Len(os.unshared) <= 1
    /\ Count(trace, "unshare") <= 1
    /\ \A k \in 1..Len(os.unshared) : os.unshared[k] = FlagSum(Len(NAMESPACES))
    /\ NamespacesDone => Len(os.unshared) = 1

\* C15: unshare is called at most once, and once in every run that gets
\* past create_namespaces; it is called when every entry of the table has
\* been scanned, and its argument is the OR of the flags of the qualifying
\* entries, 0 when there is none.
C15_SingleUnshare ==
    [][ /\ CallMade = "unshare" =>
             /\ i = Len(NAMESPACES) + 1
             /\ Count(trace, "stat_ns") = Cardinality(Looked)
             /\ Count(trace, "unshare") = 0
        /\ C15_State'
      ]_vars

C15_Witness ==
    /\ os.unshared = <<0>>
    /\ Len(NAMESPACES) > 1
    /\ NamespacesDone

\* the calls of setup_root_mount, in the order of its statements
RootOps == <<"mount_root", "mkdir_old_root", "chdir", "pivot_root", "chroot">>

\* the calls of t that are calls of setup_root_mount
RECURSIVE RootCalls(_)
RootCalls(t) ==
    IF t = << >> THEN << >>
    ELSE IF \E k \in 1..Len(RootOps) : RootOps[k] = Head(t)
         THEN <<Head(t)>> \o RootCalls(Tail(t))
         ELSE RootCalls(Tail(t))

\* C16: setup_root_mount makes its calls in the order slave remount, mkdir
\* of old_root, chdir, pivot_root, chroot, each at most once; a call that
\* raises is the last of them, and what the later ones do has not happened.
C16_RootMountOrder ==
    /\ IsPrefix(RootCalls(trace), RootOps)
    /\ \A k \in 1..Len(RootOps) :
          failed = RootOps[k] =>
              /\ Len(RootCalls(trace)) = k
              /\ pc = "Aborted"
    /\ os.chrooted => os.pivoted
    /\ os.pivoted => os.cwd = "root_dir"
    /\ os.cwd = "root_dir" => Count(trace, "mkdir_old_root") = 1
    /\ Count(trace, "mkdir_old_root") = 1 => os.propagation = "rslave"
    /\ failed = "mount_root" => os.propagation = "shared" /\ ~os.oldRootDir
    /\ failed = "mkdir_old_root" => ~os.oldRootDir /\ os.cwd = "host"
    /\ failed = "chdir" => os.cwd = "host" /\ ~os.pivoted
    /\ failed = "pivot_root" => ~os.pivoted /\ ~os.oldRootMnt /\ ~os.chrooted
    /\ failed = "chroot" => ~os.chrooted /\ os.mounts = << >>

C16_Witness ==
    /\ RootCalls(trace) = RootOps
    /\ os.chrooted
    /\ failed = "none"

\* the directories ensured for the first m entries of CONTAINER_MOUNTS
DirsOf(m) ==
    UNION {WithParents(CONTAINER_MOUNTS[k].destination) :
              k \in {n \in 1..m : n <= Len(CONTAINER_MOUNTS)}}

\* entry p's destination is a proper ancestor of entry j's
Nested(p, j) ==
    /\ Len(CONTAINER_MOUNTS[p].destination) < Len(CONTAINER_MOUNTS[j].destination)
    /\ CONTAINER_MOUNTS[p].destination \in WithParents(CONTAINER_MOUNTS[j].destination)

\* mount_defaults has returned
MountsDone == pc = "dev_mknod" \/ Count(trace, "mknod") > 0

\* what C17 says of a state
C17_State ==
    /\ Len(os.mounts) <= Len(CONTAINER_MOUNTS)
    /\ os.mounts = [k \in 1..Len(os.mounts) |-> k]
    /\ \A k \in 1..Len(os.mounts) : CONTAINER_MOUNTS[os.mounts[k]].destination \in os.dirs
    /\ os.dirs \in {DirsOf(Len(os.mounts)), DirsOf(Len(os.mounts) + 1)}
    /\ pc = "mnt_mount" => os.dirs = DirsOf(i) /\ Len(os.mounts) = i - 1
    /\ \A j \in 1..Len(CONTAINER_MOUNTS) : \A p \in 1..(j - 1) :
          (Nested(p, j) /\ CONTAINER_MOUNTS[j].destination \in os.dirs)
              => Len(os.mounts) >= p
    /\ failed = "mount" =>
          /\ pc = "Aborted"
          /\ Len(os.mounts) < Len(CONTAINER_MOUNTS)
          /\ os.dirs = DirsOf(Len(os.mounts) + 1)
          /\ Count(trace, "mount") = Len(os.mounts) + 1
          /\ Count(trace, "mkdir") = Len(os.mounts) + 1
    /\ failed = "mkdir" => os.dirs = DirsOf(Len(os.mounts))
    /\ MountsDone =>
          /\ Len(os.mounts) = Len(CONTAINER_MOUNTS)
          /\ Count(trace, "mount") = Len(CONTAINER_MOUNTS)

\* C17: the entries of CONTAINER_MOUNTS are mounted in table order, each
\* once, the destination of an entry being ensured just before its mount
\* and so after the mount of a parent listed before it; a mount that
\* raises ends the loop: no later entry is created or mounted, and what
\* was mounted stays mounted.
C17_MountsInTableOrder ==
    [][ /\ C17_State'
        /\ IsPrefix(os.mounts, os'.mounts)
        /\ os.dirs \subseteq os'.dirs
      ]_vars

C17_Witness ==
    /\ failed = "mount"
    /\ os.mounts = <<1, 2, 3>>
    /\ <<"dev", "pts">> \in os.dirs
    /\ <<"tmp">> \notin os.dirs

\* the destinations of the tmpfs entries of the first k entries, in order
RECURSIVE TmpfsDests(_)
TmpfsDests(k) ==
    IF k = 0 THEN << >>
    ELSE IF CONTAINER_MOUNTS[k].type = "tmpfs"
         THEN Append(TmpfsDests(k - 1), CONTAINER_MOUNTS[k].destination)
         ELSE TmpfsDests(k - 1)

\* create_tmpfs_dirs has returned
TmpfsDone == pc = "umount2" \/ Count(trace, "umount2") > 0

\* C18: with the tool present it is invoked for the tmpfs entries only, in
\* table order and with the destination as prefix, at most once each, and
\* for every one of them when create_tmpfs_dirs returns; with the tool
\* absent nothing is invoked, one warning is logged and the function
\* returns.
C18_TmpfilesPerTmpfsMount ==
    /\ IsPrefix(os.tmpfilesRun, TmpfsDests(Len(CONTAINER_MOUNTS)))
    /\ Count(trace, "systemd-tmpfiles")
          = Len(os.tmpfilesRun) + (IF failed = "systemd-tmpfiles" THEN 1 ELSE 0)
    /\ pc = "tmpfs_run" => os.tmpfilesRun = TmpfsDests(i - 1)
    /\ os.tmpfiles = "unknown" => os.tmpfilesRun = << >>
    /\ os.tmpfiles = "present" =>
          /\ Count(warnings, "systemd-tmpfiles") = 0
          /\ TmpfsDone => os.tmpfilesRun = TmpfsDests(Len(CONTAINER_MOUNTS))
    /\ os.tmpfiles = "absent" =>
          /\ os.tmpfilesRun = << >>
          /\ Count(trace, "systemd-tmpfiles") = 0
          /\ Count(warnings, "systemd-tmpfiles") = 1
          /\ TmpfsDone
          /\ failed \notin {"stat_tmpfiles", "systemd-tmpfiles"}

C18_Witness ==
    /\ os.tmpfiles = "present"
    /\ TmpfsDone
    /\ os.tmpfilesRun = << <<"dev">>, <<"tmp">>, <<"run">> >>

\* run is in mount_defaults, the device node functions or create_tmpfs_dirs
UsingOldRoot ==
    \/ pc \in {"mnt_mkdir", "mnt_mount", "dev_mknod", "dev_chmod",
               "loopctl_mknod", "loopctl_chmod", "loop_mknod", "loop_chmod",
               "tmpfs_exists", "tmpfs_run", "umount2"}
    \/ failed \in {"mkdir", "mount", "mknod", "chmod", "systemd-tmpfiles",
                   "umount2"}

\* C19: the old root is mounted at /old_root all through mount_defaults,
\* the device node functions and create_tmpfs_dirs; it is detached by
\* umount2 and then removed by rmdir before sethostname is called, and is
\* neither mounted nor present once the marker has been written.
C19_OldRootDetachedLate ==
    /\ UsingOldRoot => os.oldRootMnt /\ os.oldRootDir
    /\ (pc = "rmdir" \/ failed = "rmdir") => ~os.oldRootMnt /\ os.oldRootDir
    /\ (pc = "sethostname" \/ Count(trace, "sethostname") > 0) =>
          /\ ~os.oldRootMnt /\ ~os.oldRootDir
          /\ Count(trace, "umount2") = 1
          /\ Count(trace, "rmdir") = 1
          /\ \A u \in Positions("umount2") : \A r \in Positions("rmdir") :
                /\ u < r
                /\ \A h \in Positions("sethostname") : r < h
    /\ ctlOut # << >> => ~os.oldRootMnt /\ ~os.oldRootDir

C19_Witness ==
    /\ ctlOut = READY
    /\ ~os.oldRootMnt /\ ~os.oldRootDir
    /\ Count(trace, "umount2") = 1
    /\ os.tmpfilesRun # << >>

\* C20: sethostname is never called in a run whose unshare call was made
\* without CLONE_NEWUTS.
C20_HostnameOnlyInUts ==
    Count(trace, "sethostname") > 0 =>
        /\ Len(os.unshared) = 1
        /\ HasFlag(os.unshared[1], CLONE_NEWUTS)

====
